---- MODULE Spec2Model ----
(***************************************************************************)
(* LaterLink Saver (src/app.js): the App component as a state machine.     *)
(*                                                                         *)
(* The React state of App, the promises it awaits and the external         *)
(* collaborators it calls (identity provider, document store, generation   *)
(* endpoint) are the variables; every effect, event handler, promise       *)
(* continuation and listener callback of the component is one action.      *)
(*                                                                         *)
(* Strings that the code inspects (trim, match, startsWith, template       *)
(* literals) are sequences of one-character strings.  The global error     *)
(* string is only ever compared and tested for emptiness, so it is kept as *)
(* an atomic string.  The character U+2728 of the placeholder text is      *)
(* written "sparkles" (one element of the sequence).                       *)
(***************************************************************************)
EXTENDS Integers, Sequences, FiniteSets, TLC

VARIABLES
    config,          \* the global __firebase_config: "undefined", "unparsable", "valid"
    mounted,         \* the mount effects of App have run
    unmounted,       \* React has unmounted App
    db,              \* useState(null): the Firestore handle
    auth,            \* useState(null): the Auth handle
    userId,          \* useState(null)
    isAuthReady,     \* useState(false)
    links,           \* useState([])
    newLinkUrl,      \* useState('')
    newLinkTitle,    \* useState('')
    isLoading,       \* useState(true)
    error,           \* useState('')
    showAddForm,     \* useState(false)
    summaries,       \* useState({}): link id -> displayed summary text
    isSummarizing,   \* useState({}): link id -> boolean
    persistence,     \* the setPersistence promise: "none", "pending", "settled"
    authListener,    \* onAuthStateChanged has registered the callback
    authEvents,      \* invocations of the auth callback not yet run (user or NULL)
    signIn,          \* the sign-in call: "none", "custom", "anonymous", "done"
    sub,             \* the onSnapshot subscription: its path and state, and how many
                     \* times onSnapshot and its unsubscribe function were called
    docs,            \* the user's collection in the store, ordered by addedAt desc
    created,         \* documents the store has created so far
    pendingAdds,     \* addDoc calls in flight: their payloads
    pendingDeletes,  \* deleteDoc calls in flight: link id -> count
    sumReq,          \* handleGetSummary invocations in flight: link id -> position
    lastSnapshot     \* what the most recent snapshot callback was handed (history)

vars == <<config, mounted, unmounted, db, auth, userId, isAuthReady, links, newLinkUrl,
          newLinkTitle, isLoading, error, showAddForm, summaries, isSummarizing,
          persistence, authListener, authEvents, signIn, sub, docs,
          created, pendingAdds, pendingDeletes, sumReq, lastSnapshot>>

\* null and undefined.  Every value that may be null is a sequence, so that it can
\* be compared with NULL.
NULL == <<"null">>

\* ------------------------------------------------------------------ bounds

\* Documents the store creates in one run (link ids are 1..MaxLinks).
MaxLinks == 1
\* Calls of one kind (addDoc; deleteDoc per link) that are in flight together.
MaxInFlight == 1

\* ------------------------------------------------------- program constants

\* match[2].length === 11
VideoIdLength == 11

\* appId when the global __app_id is undefined.
appId == "default-laterlink-app"

\* The store handle and the auth handle the SDK returns, and the identity the
\* provider issues.
FirestoreDb == <<"firestoreDb">>
FirebaseAuth == <<"firebaseAuth">>
Uid == <<"u","i","d","1">>
InitialAuthToken == <<"t","o","k","e","n">>

\* The values of the global error string.
NoError == ""
ErrAuthFailed == "Authentication failed. Please try again later."
ErrSession == "Could not initialize session. Please try again."
ErrInitialize == "Could not initialize the application. Please check the console."
ErrConfigMissing == "Application configuration is missing. Cannot start."
ErrLoadLinks == "Failed to load links. Please check your connection or try again later."
ErrRequired == "Both URL and Title are required."
ErrNotReady == "Database not ready or user not authenticated."
ErrInvalidUrl == "Invalid YouTube URL. Please enter a valid YouTube video link."
ErrAddFailed == "Failed to add link. Please try again."
ErrDeleteFailed == "Failed to delete link. Please try again."
ErrNotReadySummary == "Database not ready or user not authenticated for summary."

\* The texts written to summaries[linkId].
GeneratingText ==
    <<"sparkles"," ","G","e","n","e","r","a","t","i","n","g"," ","s","u","m","m","a","r","y",".",".",".">>
CouldNotGenerateText ==
    <<"C","o","u","l","d"," ","n","o","t"," ","g","e","n","e","r","a","t","e"," ","s","u","m","m","a","r","y"," ","(","u","n","e","x","p","e","c","t","e","d"," ","r","e","s","p","o","n","s","e",")",".">>
ErrorPrefix == <<"E","r","r","o","r",":"," ">>
ErrorMarker == <<"E","r","r","o","r",":">>
FailedToGetSummary ==
    <<"F","a","i","l","e","d"," ","t","o"," ","g","e","t"," ","s","u","m","m","a","r","y",".">>
ApiRequestFailed ==
    <<"A","P","I"," ","r","e","q","u","e","s","t"," ","f","a","i","l","e","d"," ","w","i","t","h"," ","s","t","a","t","u","s"," ">>
UnknownError == <<"U","n","k","n","o","w","n"," ","e","r","r","o","r">>

\* ------------------------------------------------------------------ inputs

\* What the user types into the url field.
UrlWatch ==
    <<"h","t","t","p","s",":","/","/","w","w","w",".","y","o","u","t","u","b","e",".","c","o","m","/","w","a","t","c","h","?","v","=","d","Q","w","4","w","9","W","g","X","c","Q">>
UrlNoVideo ==
    <<"h","t","t","p","s",":","/","/","e","x","a","m","p","l","e",".","c","o","m","/","v","i","d","e","o">>
Urls == {UrlWatch, UrlNoVideo}

\* What the user types into the title field: a title, and a blank one.
TitleText == <<"M","y"," ","V","i","d","e","o">>
TitleBlank == <<" ">>
Titles == {TitleText, TitleBlank}

\* The first text fragment of a well-formed generation response.
TextA == <<"A"," ","t","a","l","k",".">>
TextB == <<"A"," ","s","o","n","g",".">>
\* The fragment may be the empty string.
TextEmpty == <<>>
Texts == {TextA, TextB, TextEmpty}

\* err.message of what fetch, response.json() or updateDoc throw: none, or a text.
MessageText == <<"o","f","f","l","i","n","e">>
ErrMessages == {<<>>, MessageText}

\* response.status of a non-success response, and errorData?.error?.message.
Statuses == {<<"5","0","0">>}
ApiMessages == {NULL}

\* ------------------------------------------- inputs of the video id extractor

\* The urls getYouTubeVideoId is applied to: a prefix, a host and path up to where
\* an id may stand, a candidate id segment, and what follows it.
UrlPrefixes == {<<"h","t","t","p","s",":","/","/">>,
                <<"h","t","t","p","s",":","/","/","w","w","w",".">>,
                <<"x","\n","h","t","t","p","s",":","/","/">>}
HeadShort == <<"y","o","u","t","u",".","b","e","/">>
HeadWildcard == <<"y","o","u","t","u","X","b","e","/">>
HeadV == <<"y","o","u","t","u","b","e",".","c","o","m","/","v","/">>
HeadTv == <<"e","x","a","m","p","l","e",".","c","o","m","/","t","v","/">>
HeadUser == <<"y","o","u","t","u","b","e",".","c","o","m","/","u","/","1","/">>
HeadUserLong == <<"y","o","u","t","u","b","e",".","c","o","m","/","u","/","1","2","/">>
HeadEmbed == <<"y","o","u","t","u","b","e",".","c","o","m","/","e","m","b","e","d","/">>
HeadWatch == <<"y","o","u","t","u","b","e",".","c","o","m","/","w","a","t","c","h","?","v","=">>
HeadBareV == <<"y","o","u","t","u","b","e",".","c","o","m","/","?","v","=">>
HeadAmpV == <<"y","o","u","t","u","b","e",".","c","o","m","/","w","a","t","c","h","?","a","=","1","&","v","=">>
HeadShorts == <<"y","o","u","t","u","b","e",".","c","o","m","/","s","h","o","r","t","s","/">>
UrlHeads ==
    {HeadShort, HeadWildcard, HeadV, HeadTv,
     HeadUser, HeadUserLong, HeadEmbed, HeadWatch,
     HeadBareV, HeadAmpV, HeadShorts}
Id11 == <<"d","Q","w","4","w","9","W","g","X","c","Q">>
Id10 == SubSeq(Id11, 1, 10)
Id12 == Id11 \o <<"x">>
IdWithSlash == <<"a","b","c","v","/","e","f","g","h","i","j">>
IdSegments == {Id11, Id10, Id12, IdWithSlash, <<>>}
UrlTails == {<<>>, <<"?","t","=","1">>, <<"&","t","=","1">>, <<"#","t">>, <<"&","v","=","2">>, <<"/","x">>}
ExtractorInputs ==
    {p \o h \o i \o t : p \in UrlPrefixes, h \in UrlHeads, i \in IdSegments, t \in UrlTails}

\* ----------------------------------------------------------- string helpers

\* Line terminators and white space, as String.prototype.trim strips them.
LineTerminators == {"\n", "\r"}
WhiteSpace == {" ", "\t", "\f"} \cup LineTerminators

\* \w of a regular expression.
WordChars ==
    {"a","b","c","d","e","f","g","h","i","j","k","l","m","n","o","p","q","r","s","t","u","v","w","x","y","z",
     "A","B","C","D","E","F","G","H","I","J","K","L","M","N","O","P","Q","R","S","T","U","V","W","X","Y","Z",
     "0","1","2","3","4","5","6","7","8","9","_"}

Max(S) == CHOOSE x \in S : \A y \in S : y <= x
Min(S) == CHOOSE x \in S : \A y \in S : x <= y

\* s.trim()
trim(s) ==
    LET keep == {i \in 1..Len(s) : s[i] \notin WhiteSpace}
    IN  IF keep = {} THEN <<>> ELSE SubSeq(s, Min(keep), Max(keep))

\* s.startsWith(p)
startsWith(s, p) == Len(s) >= Len(p) /\ SubSeq(s, 1, Len(p)) = p

\* A string is truthy when it is neither null nor empty.
Truthy(s) == s # NULL /\ s # <<>>

\* ------------------------------------------------- YouTube video id extractor

\* Does the literal lit stand in s at position p?
LiteralAt(s, p, lit) ==
    p + Len(lit) - 1 <= Len(s) /\ SubSeq(s, p, p + Len(lit) - 1) = lit

\* The length of the alternative of (youtu.be\/|v\/|u\/\w\/|embed\/|watch\?v=|&v=)
\* that matches in s at position p, 0 when none does.  The alternatives start with
\* different characters, so at most one matches at a position.
MarkerLenAt(s, p) ==
    IF /\ LiteralAt(s, p, <<"y","o","u","t","u">>)
       /\ p + 5 <= Len(s) /\ s[p + 5] \notin LineTerminators
       /\ LiteralAt(s, p + 6, <<"b","e","/">>) THEN 9
    ELSE IF LiteralAt(s, p, <<"v","/">>) THEN 2
    ELSE IF /\ LiteralAt(s, p, <<"u","/">>)
            /\ p + 3 <= Len(s) /\ s[p + 2] \in WordChars /\ s[p + 3] = "/" THEN 4
    ELSE IF LiteralAt(s, p, <<"e","m","b","e","d","/">>) THEN 6
    ELSE IF LiteralAt(s, p, <<"w","a","t","c","h","?","v","=">>) THEN 8
    ELSE IF LiteralAt(s, p, <<"&","v","=">>) THEN 3
    ELSE 0

\* url.match(/^.*(...)([^#&?]*).*/): the leading .* is greedy and matches no line
\* terminator, so group 1 is the rightmost alternative that stands after a prefix
\* free of line terminators; group 2 is the longest run of characters other than
\* # & ? that follows it.  NULL when there is no match.
MatchGroup2(url) ==
    LET starts == {p \in 1..Len(url) :
                      /\ MarkerLenAt(url, p) > 0
                      /\ \A i \in 1..(p - 1) : url[i] \notin LineTerminators}
    IN  IF starts = {} THEN NULL
        ELSE LET p     == Max(starts)
                 from  == p + MarkerLenAt(url, p)
                 stops == {i \in from..Len(url) : url[i] \in {"#", "&", "?"}}
                 to    == IF stops = {} THEN Len(url) ELSE Min(stops) - 1
             IN  SubSeq(url, from, to)

\* getYouTubeVideoId without the test of the length of match[2].
getYouTubeVideoId_anyLength(url) ==
    IF ~Truthy(url) THEN NULL
    ELSE MatchGroup2(url)

getYouTubeVideoId(url) ==
    IF ~Truthy(url) THEN NULL
    ELSE LET m == MatchGroup2(url)
         IN  IF m # NULL /\ Len(m) = VideoIdLength THEN m ELSE NULL

\* ------------------------------------------------------ configuration helper

\* getFirebaseConfig(): the parsed configuration, or null when the global is
\* undefined or JSON.parse throws.
getFirebaseConfig ==
    IF config = "valid" THEN <<"firebaseConfig">> ELSE NULL

\* ------------------------------------------------------------ store helpers

\* `artifacts/${appId}/users/${userId}/laterTubeLinks`, as its segments.
linksCollectionPath(u) == <<"artifacts", appId, "users", u, "laterTubeLinks">>

\* The ids the store assigns: the n-th document it creates gets id n.
Ids == 1..MaxLinks

\* ({...prev, [k]: v}) and (delete copy[k]) on an object used as a map.
Put(f, k, v) == [x \in DOMAIN f \cup {k} |-> IF x = k THEN v ELSE f[x]]
Remove(f, k) == [x \in DOMAIN f \ {k} |-> f[x]]

\* The collection without the document whose id is drop.
RECURSIVE SelectDocs(_, _)
SelectDocs(s, drop) ==
    IF s = <<>> THEN <<>>
    ELSE IF Head(s).id = drop THEN SelectDocs(Tail(s), drop)
    ELSE <<Head(s)>> \o SelectDocs(Tail(s), drop)

\* ({id: doc.id, ...doc.data()})
LinkOf(doc) ==
    [id |-> doc.id, url |-> doc.data.url, title |-> doc.data.title,
     videoId |-> doc.data.videoId, addedAt |-> doc.data.addedAt,
     userId |-> doc.data.userId, summary |-> doc.data.summary]

\* snapshot.docs.map(doc => ({id: doc.id, ...doc.data()}))
fetchedLinks(snapshotDocs) == [i \in DOMAIN snapshotDocs |-> LinkOf(snapshotDocs[i])]

\* initialSummaries: the summary of every fetched link that has a truthy one (the
\* last one wins if an id came twice).
initialSummaries(fetched) ==
    LET withSummary == {i \in DOMAIN fetched : Truthy(fetched[i].summary)}
        ids == {fetched[i].id : i \in withSummary}
    IN  [k \in ids |-> fetched[Max({i \in withSummary : fetched[i].id = k})].summary]

\* ({...prev, ...initialSummaries})
Merge(prev, more) ==
    [k \in DOMAIN prev \cup DOMAIN more |-> IF k \in DOMAIN more THEN more[k] ELSE prev[k]]

LinkIds == {links[i].id : i \in DOMAIN links}
DocIds == {docs[i].id : i \in DOMAIN docs}
LinkWithId(id) == links[CHOOSE i \in DOMAIN links : links[i].id = id]

\* isSummarizing[link.id], undefined counting as false.
Summarizing(id) == id \in DOMAIN isSummarizing /\ isSummarizing[id]

\* `Error: ${err.message || "Failed to get summary."}`
errorText(message) ==
    ErrorPrefix \o (IF Truthy(message) THEN message ELSE FailedToGetSummary)

\* `API request failed with status ${response.status}: ${errorData?.error?.message || 'Unknown error'}`
apiErrorMessage(status, apiMessage) ==
    ApiRequestFailed \o status \o <<":", " ">>
        \o (IF Truthy(apiMessage) THEN apiMessage ELSE UnknownError)

\* ------------------------------------------------------------------- render

\* The early return of the render function: only the "Initializing App..." screen
\* is shown, and none of the controls below exists.
InitialAppLoading == ~isAuthReady /\ isLoading
AppShown == mounted /\ ~unmounted /\ ~InitialAppLoading

\* What the main return renders below the header: the error banner, the "Loading
\* links..." spinner, the "No links saved yet." panel, the "Authentication
\* Problem" panel, and the cards of the links.
ErrorBannerShown == ~InitialAppLoading /\ error # NoError
LoadingLinksView ==
    ~InitialAppLoading /\ isLoading /\ Len(links) = 0 /\ error = NoError /\ isAuthReady
EmptyListView ==
    ~InitialAppLoading /\ ~isLoading /\ Len(links) = 0 /\ error = NoError /\ isAuthReady
AuthProblemView == ~InitialAppLoading /\ ~isAuthReady /\ ~isLoading
PopulatedListView == ~InitialAppLoading /\ Len(links) > 0

\* The text of the summary button on the card of link id.
summaryButtonLabel(id) ==
    IF Summarizing(id) THEN "Getting Summary..."
    ELSE IF /\ id \in DOMAIN summaries
            /\ Truthy(summaries[id])
            /\ summaries[id] # GeneratingText
            /\ ~startsWith(summaries[id], ErrorMarker)
    THEN "Regenerate Summary"
    ELSE "Get Summary"

\* --------------------------------------------------------------------- Init

Init ==
    /\ config \in {"undefined", "unparsable", "valid"}
    /\ mounted = FALSE
    /\ unmounted = FALSE
    /\ db = NULL
    /\ auth = NULL
    /\ userId = NULL
    /\ isAuthReady = FALSE
    /\ links = <<>>
    /\ newLinkUrl = <<>>
    /\ newLinkTitle = <<>>
    /\ isLoading = TRUE
    /\ error = NoError
    /\ showAddForm = FALSE
    /\ summaries = <<>>
    /\ isSummarizing = <<>>
    /\ persistence = "none"
    /\ authListener = FALSE
    /\ authEvents = <<>>
    /\ signIn = "none"
    /\ sub = [path |-> NULL, state |-> "none", opened |-> 0, closed |-> 0]
    /\ docs = <<>>
    /\ created = 0
    /\ pendingAdds = <<>>
    /\ pendingDeletes = [id \in Ids |-> 0]
    /\ sumReq = <<>>
    /\ lastSnapshot = <<>>

\* ------------------------------------------------ the subscription effect

\* The subscription effect testing isAuthReady && db only, not userId.
subscriptionEffect_noUserCheck(d, u, ready, loading) ==
    /\ db' = d
    /\ userId' = u
    /\ isAuthReady' = ready
    /\ IF <<d, u, ready>> = <<db, userId, isAuthReady>>
       THEN /\ isLoading' = loading
            /\ sub' = sub
       ELSE IF ready /\ d # NULL
       THEN /\ isLoading' = TRUE
            /\ sub' = [path |-> linksCollectionPath(u), state |-> "live",
                       opened |-> sub.opened + 1,
                       closed |-> IF sub.state \in {"live", "errored"}
                                  THEN sub.closed + 1 ELSE sub.closed]
       ELSE /\ isLoading' = (IF ready /\ u = NULL THEN FALSE ELSE loading)
            /\ sub' = IF sub.state \in {"live", "errored"}
                      THEN [sub EXCEPT !.state = "closed", !.closed = @ + 1] ELSE sub

\* The subscription effect stopping the loading indicator whenever there is no
\* user, `else if (!userId)`, ready or not.
subscriptionEffect_noReadyCheck(d, u, ready, loading) ==
    /\ db' = d
    /\ userId' = u
    /\ isAuthReady' = ready
    /\ IF <<d, u, ready>> = <<db, userId, isAuthReady>>
       THEN /\ isLoading' = loading
            /\ sub' = sub
       ELSE IF ready /\ d # NULL /\ u # NULL
       THEN /\ isLoading' = TRUE
            /\ sub' = [path |-> linksCollectionPath(u), state |-> "live",
                       opened |-> sub.opened + 1,
                       closed |-> IF sub.state \in {"live", "errored"}
                                  THEN sub.closed + 1 ELSE sub.closed]
       ELSE /\ isLoading' = (IF u = NULL THEN FALSE ELSE loading)
            /\ sub' = IF sub.state \in {"live", "errored"}
                      THEN [sub EXCEPT !.state = "closed", !.closed = @ + 1] ELSE sub

\* The state setters of a step that touch db, userId, isAuthReady or isLoading,
\* followed by the effect "Fetch links from Firestore", which React runs again
\* after the render whenever one of its dependencies [db, userId, isAuthReady]
\* has changed: it first runs the cleanup the previous run returned, then
\* subscribes, or stops the loading indicator when there is no user.
subscriptionEffect(d, u, ready, loading) ==
    /\ db' = d
    /\ userId' = u
    /\ isAuthReady' = ready
    /\ IF <<d, u, ready>> = <<db, userId, isAuthReady>>
       THEN /\ isLoading' = loading
            /\ sub' = sub
       ELSE IF ready /\ d # NULL /\ u # NULL
       THEN /\ isLoading' = TRUE
            /\ sub' = [path |-> linksCollectionPath(u), state |-> "live",
                       opened |-> sub.opened + 1,
                       closed |-> IF sub.state \in {"live", "errored"}
                                  THEN sub.closed + 1 ELSE sub.closed]
       ELSE /\ isLoading' = (IF ready /\ u = NULL THEN FALSE ELSE loading)
            /\ sub' = IF sub.state \in {"live", "errored"}
                      THEN [sub EXCEPT !.state = "closed", !.closed = @ + 1] ELSE sub

\* ------------------------------------ the effect "Initialize Firebase and Auth"

unchangedForm == UNCHANGED <<newLinkUrl, newLinkTitle, showAddForm>>
unchangedAuthCalls == UNCHANGED <<persistence, authListener, authEvents, signIn>>
unchangedStore == UNCHANGED <<docs, created, pendingAdds, pendingDeletes>>
unchangedSummaries == UNCHANGED <<summaries, isSummarizing, sumReq>>
unchangedSession == UNCHANGED <<config, mounted, unmounted, db, auth, userId, isAuthReady, sub>>

\* The initialization effect without setIsAuthReady(true) when the configuration
\* is missing.
InitializeEffect_noAuthReady ==
    /\ ~unmounted
    /\ ~mounted
    /\ mounted' = TRUE
    /\ \E sdkThrows \in BOOLEAN :
         IF getFirebaseConfig # NULL
         THEN IF ~sdkThrows
              THEN /\ auth' = FirebaseAuth
                   /\ persistence' = "pending"
                   /\ error' = error
                   /\ subscriptionEffect(FirestoreDb, userId, isAuthReady, isLoading)
              ELSE /\ error' = ErrInitialize
                   /\ subscriptionEffect(db, userId, TRUE, FALSE)
                   /\ UNCHANGED <<auth, persistence>>
         ELSE /\ sdkThrows = FALSE
              /\ error' = ErrConfigMissing
              /\ subscriptionEffect(db, userId, isAuthReady, FALSE)
              /\ UNCHANGED <<auth, persistence>>
    /\ UNCHANGED <<config, unmounted, links, authListener, authEvents, signIn, lastSnapshot>>
    /\ unchangedForm /\ unchangedStore /\ unchangedSummaries

\* The mount of App: the synchronous part of the initialization effect.  sdkThrows
\* says whether initializeApp, getFirestore or getAuth throws.
InitializeEffect ==
    /\ ~unmounted
    /\ ~mounted
    /\ mounted' = TRUE
    /\ \E sdkThrows \in BOOLEAN :
         IF getFirebaseConfig # NULL
         THEN IF ~sdkThrows
              THEN /\ auth' = FirebaseAuth
                   /\ persistence' = "pending"
                   /\ error' = error
                   /\ subscriptionEffect(FirestoreDb, userId, isAuthReady, isLoading)
              ELSE /\ error' = ErrInitialize
                   /\ subscriptionEffect(db, userId, TRUE, FALSE)
                   /\ UNCHANGED <<auth, persistence>>
         ELSE /\ sdkThrows = FALSE
              /\ error' = ErrConfigMissing
              /\ subscriptionEffect(db, userId, TRUE, FALSE)
              /\ UNCHANGED <<auth, persistence>>
    /\ UNCHANGED <<config, unmounted, links, authListener, authEvents, signIn, lastSnapshot>>
    /\ unchangedForm /\ unchangedStore /\ unchangedSummaries

\* setPersistence(...).then: onAuthStateChanged registers the callback, and the
\* provider calls it with the current user: the one of a persisted session, or null.
PersistenceResolved ==
    /\ ~unmounted
    /\ persistence = "pending"
    /\ persistence' = "settled"
    /\ authListener' = TRUE
    /\ \E user \in {NULL, Uid} : authEvents' = Append(authEvents, user)
    /\ UNCHANGED <<signIn, links, error, isLoading, lastSnapshot>>
    /\ unchangedSession /\ unchangedForm /\ unchangedStore /\ unchangedSummaries

\* setPersistence(...).catch
PersistenceRejected ==
    /\ ~unmounted
    /\ persistence = "pending"
    /\ persistence' = "settled"
    /\ error' = ErrSession
    /\ subscriptionEffect(db, userId, TRUE, isLoading)
    /\ UNCHANGED <<config, mounted, unmounted, auth, authListener, authEvents, signIn, links, lastSnapshot>>
    /\ unchangedForm /\ unchangedStore /\ unchangedSummaries

\* The auth callback without its setIsAuthReady(true) when there is a user.
AuthStateChanged_noAuthReady ==
    /\ ~unmounted
    /\ authListener
    /\ authEvents # <<>>
    /\ authEvents' = Tail(authEvents)
    /\ LET user == Head(authEvents)
       IN  IF user # NULL
           THEN /\ subscriptionEffect(db, user, isAuthReady, isLoading)
                /\ signIn' = signIn
           ELSE /\ signIn = "none"
                /\ \E token \in {NULL, InitialAuthToken} :
                     signIn' = IF Truthy(token) THEN "custom" ELSE "anonymous"
                /\ UNCHANGED <<db, userId, isAuthReady, isLoading, sub>>
    /\ UNCHANGED <<config, mounted, unmounted, auth, persistence, authListener, links, error, lastSnapshot>>
    /\ unchangedForm /\ unchangedStore /\ unchangedSummaries

\* The onAuthStateChanged callback up to its await.  With a user it runs to its
\* end; without one it calls signInWithCustomToken when the global
\* __initial_auth_token is set and signInAnonymously otherwise.
AuthStateChanged ==
    /\ ~unmounted
    /\ authListener
    /\ authEvents # <<>>
    /\ authEvents' = Tail(authEvents)
    /\ LET user == Head(authEvents)
       IN  IF user # NULL
           THEN /\ subscriptionEffect(db, user, TRUE, isLoading)
                /\ signIn' = signIn
           ELSE /\ signIn = "none"
                /\ \E token \in {NULL, InitialAuthToken} :
                     signIn' = IF Truthy(token) THEN "custom" ELSE "anonymous"
                /\ UNCHANGED <<db, userId, isAuthReady, isLoading, sub>>
    /\ UNCHANGED <<config, mounted, unmounted, auth, persistence, authListener, links, error, lastSnapshot>>
    /\ unchangedForm /\ unchangedStore /\ unchangedSummaries

\* The sign-in succeeds: the callback goes on after its await with
\* setIsAuthReady(true), and the provider calls the auth callback again, now with
\* the user, either before that continuation runs or at a later time.
SignInResolved ==
    /\ ~unmounted
    /\ signIn \in {"custom", "anonymous"}
    /\ signIn' = "done"
    /\ \E listenerFirst \in BOOLEAN :
         IF listenerFirst
         THEN /\ subscriptionEffect(db, Uid, TRUE, isLoading)
              /\ authEvents' = authEvents
         ELSE /\ subscriptionEffect(db, userId, TRUE, isLoading)
              /\ authEvents' = Append(authEvents, Uid)
    /\ UNCHANGED <<config, mounted, unmounted, auth, persistence, authListener, links, error,
                   lastSnapshot>>
    /\ unchangedForm /\ unchangedStore /\ unchangedSummaries

\* SignInRejected calling the auth callback again after the failure, for another
\* attempt.
SignInRejected_retry ==
    /\ ~unmounted
    /\ signIn \in {"custom", "anonymous"}
    /\ signIn' = "none"
    /\ authEvents' = Append(authEvents, NULL)
    /\ error' = ErrAuthFailed
    /\ subscriptionEffect(db, userId, TRUE, isLoading)
    /\ UNCHANGED <<config, mounted, unmounted, auth, persistence, authListener, links,
                   lastSnapshot>>
    /\ unchangedForm /\ unchangedStore /\ unchangedSummaries

\* SignInRejected without the setIsAuthReady(true) that follows the catch.
SignInRejected_noAuthReady ==
    /\ ~unmounted
    /\ signIn \in {"custom", "anonymous"}
    /\ signIn' = "done"
    /\ error' = ErrAuthFailed
    /\ subscriptionEffect(db, userId, isAuthReady, isLoading)
    /\ UNCHANGED <<config, mounted, unmounted, auth, persistence, authListener, authEvents, links,
                   lastSnapshot>>
    /\ unchangedForm /\ unchangedStore /\ unchangedSummaries

\* The sign-in throws: the catch sets the error, then setIsAuthReady(true).
SignInRejected ==
    /\ ~unmounted
    /\ signIn \in {"custom", "anonymous"}
    /\ signIn' = "done"
    /\ error' = ErrAuthFailed
    /\ subscriptionEffect(db, userId, TRUE, isLoading)
    /\ UNCHANGED <<config, mounted, unmounted, auth, persistence, authListener, authEvents, links,
                   lastSnapshot>>
    /\ unchangedForm /\ unchangedStore /\ unchangedSummaries

\* ------------------------------------------------------ the live subscription

\* SnapshotDelivered with the merge the other way round, ({...initialSummaries,
\* ...prev}): a summary that is shown is kept.
SnapshotDelivered_keepsShown ==
    /\ sub.state = "live"
    /\ links' = fetchedLinks(docs)
    /\ summaries' = Merge(initialSummaries(fetchedLinks(docs)), summaries)
    /\ isLoading' = FALSE
    /\ error' = NoError
    /\ lastSnapshot' = docs
    /\ UNCHANGED <<isSummarizing, sumReq>>
    /\ unchangedSession /\ unchangedForm /\ unchangedStore /\ unchangedAuthCalls

\* SnapshotDelivered without the setError('') at its end.
SnapshotDelivered_keepsError ==
    /\ sub.state = "live"
    /\ links' = fetchedLinks(docs)
    /\ summaries' = Merge(summaries, initialSummaries(fetchedLinks(docs)))
    /\ isLoading' = FALSE
    /\ lastSnapshot' = docs
    /\ UNCHANGED <<error, isSummarizing, sumReq>>
    /\ unchangedSession /\ unchangedForm /\ unchangedStore /\ unchangedAuthCalls

\* The onSnapshot callback.  The store hands it the collection as it holds it: the
\* first snapshot of the subscription, the one that follows a change, or a repeated
\* one (delivery is at-least-once).  The store calls it as long as the listener is
\* attached, that is until unsubscribe() is called or the listener fails.
SnapshotDelivered ==
    /\ sub.state = "live"
    /\ links' = fetchedLinks(docs)
    /\ summaries' = Merge(summaries, initialSummaries(fetchedLinks(docs)))
    /\ isLoading' = FALSE
    /\ error' = NoError
    /\ lastSnapshot' = docs
    /\ UNCHANGED <<isSummarizing, sumReq>>
    /\ unchangedSession /\ unchangedForm /\ unchangedStore /\ unchangedAuthCalls

\* SnapshotFailed subscribing anew after the failure.
SnapshotFailed_resubscribes ==
    /\ sub.state = "live"
    /\ sub' = [sub EXCEPT !.opened = @ + 1, !.closed = @ + 1]
    /\ error' = ErrLoadLinks
    /\ isLoading' = FALSE
    /\ UNCHANGED <<config, mounted, unmounted, db, auth, userId, isAuthReady, links, lastSnapshot>>
    /\ unchangedForm /\ unchangedStore /\ unchangedAuthCalls /\ unchangedSummaries

\* The onSnapshot error callback; the store ends a listener that has failed.
SnapshotFailed ==
    /\ sub.state = "live"
    /\ sub' = [sub EXCEPT !.state = "errored"]
    /\ error' = ErrLoadLinks
    /\ isLoading' = FALSE
    /\ UNCHANGED <<config, mounted, unmounted, db, auth, userId, isAuthReady, links, lastSnapshot>>
    /\ unchangedForm /\ unchangedStore /\ unchangedAuthCalls /\ unchangedSummaries

\* ----------------------------------------------------------------- the form

\* onClick of "Add New Link".
OpenAddForm ==
    /\ AppShown
    /\ ~showAddForm
    /\ showAddForm' = TRUE
    /\ UNCHANGED <<newLinkUrl, newLinkTitle, links, error, isLoading, lastSnapshot>>
    /\ unchangedSession /\ unchangedStore /\ unchangedAuthCalls /\ unchangedSummaries

\* onClick of "Cancel".
CancelAddForm ==
    /\ AppShown
    /\ showAddForm
    /\ showAddForm' = FALSE
    /\ UNCHANGED <<newLinkUrl, newLinkTitle, links, error, isLoading, lastSnapshot>>
    /\ unchangedSession /\ unchangedStore /\ unchangedAuthCalls /\ unchangedSummaries

\* onChange of the url field.
TypeUrl ==
    /\ AppShown
    /\ showAddForm
    /\ \E url \in Urls \cup {<<>>} : newLinkUrl' = url
    /\ UNCHANGED <<newLinkTitle, showAddForm, links, error, isLoading, lastSnapshot>>
    /\ unchangedSession /\ unchangedStore /\ unchangedAuthCalls /\ unchangedSummaries

\* onChange of the title field.
TypeTitle ==
    /\ AppShown
    /\ showAddForm
    /\ \E title \in Titles \cup {<<>>} : newLinkTitle' = title
    /\ UNCHANGED <<newLinkUrl, showAddForm, links, error, isLoading, lastSnapshot>>
    /\ unchangedSession /\ unchangedStore /\ unchangedAuthCalls /\ unchangedSummaries

\* ------------------------------------------------------------ handleAddLink

\* The sequence s without its i-th element.
Without(s, i) == SubSeq(s, 1, i - 1) \o SubSeq(s, i + 1, Len(s))

\* The argument of addDoc: the collection and the fields of the new document.
addDocCall(videoId) ==
    [path |-> linksCollectionPath(userId),
     data |-> [url |-> newLinkUrl, title |-> newLinkTitle, videoId |-> videoId,
               addedAt |-> 0, userId |-> userId, summary |-> NULL]]

\* handleAddLink without its check of db and userId.
handleAddLink_noReadyCheck ==
    /\ AppShown
    /\ showAddForm
    /\ ~isLoading
    /\ IF trim(newLinkUrl) = <<>> \/ trim(newLinkTitle) = <<>>
       THEN /\ error' = ErrRequired
            /\ pendingAdds' = pendingAdds
       ELSE IF getYouTubeVideoId(newLinkUrl) = NULL
       THEN /\ error' = ErrInvalidUrl
            /\ pendingAdds' = pendingAdds
       ELSE /\ Len(pendingAdds) < MaxInFlight
            /\ created + Len(pendingAdds) < MaxLinks
            /\ error' = NoError
            /\ pendingAdds' = Append(pendingAdds, addDocCall(getYouTubeVideoId(newLinkUrl)))
    /\ UNCHANGED <<links, isLoading, lastSnapshot, docs, created, pendingDeletes>>
    /\ unchangedSession /\ unchangedForm /\ unchangedAuthCalls /\ unchangedSummaries

\* handleAddLink testing the fields for emptiness without trimming them.
handleAddLink_noTrim ==
    /\ AppShown
    /\ showAddForm
    /\ ~isLoading
    /\ IF newLinkUrl = <<>> \/ newLinkTitle = <<>>
       THEN /\ error' = ErrRequired
            /\ pendingAdds' = pendingAdds
       ELSE IF db = NULL \/ userId = NULL
       THEN /\ error' = ErrNotReady
            /\ pendingAdds' = pendingAdds
       ELSE IF getYouTubeVideoId(newLinkUrl) = NULL
       THEN /\ error' = ErrInvalidUrl
            /\ pendingAdds' = pendingAdds
       ELSE /\ Len(pendingAdds) < MaxInFlight
            /\ created + Len(pendingAdds) < MaxLinks
            /\ error' = NoError
            /\ pendingAdds' = Append(pendingAdds, addDocCall(getYouTubeVideoId(newLinkUrl)))
    /\ UNCHANGED <<links, isLoading, lastSnapshot, docs, created, pendingDeletes>>
    /\ unchangedSession /\ unchangedForm /\ unchangedAuthCalls /\ unchangedSummaries

\* onSubmit of the form (the "Save Link" button is disabled while isLoading), up to
\* the await of addDoc.
handleAddLink ==
    /\ AppShown
    /\ showAddForm
    /\ ~isLoading
    /\ IF trim(newLinkUrl) = <<>> \/ trim(newLinkTitle) = <<>>
       THEN /\ error' = ErrRequired
            /\ pendingAdds' = pendingAdds
       ELSE IF db = NULL \/ userId = NULL
       THEN /\ error' = ErrNotReady
            /\ pendingAdds' = pendingAdds
       ELSE IF getYouTubeVideoId(newLinkUrl) = NULL
       THEN /\ error' = ErrInvalidUrl
            /\ pendingAdds' = pendingAdds
       ELSE /\ Len(pendingAdds) < MaxInFlight
            /\ created + Len(pendingAdds) < MaxLinks
            /\ error' = NoError
            /\ pendingAdds' = Append(pendingAdds, addDocCall(getYouTubeVideoId(newLinkUrl)))
    /\ UNCHANGED <<links, isLoading, lastSnapshot, docs, created, pendingDeletes>>
    /\ unchangedSession /\ unchangedForm /\ unchangedAuthCalls /\ unchangedSummaries

\* The collection after the store has created the document of an addDoc call: it
\* has the next id and the server's timestamp, which puts it first in the
\* addedAt-descending order.
withCreated(collection, call) ==
    <<[id |-> created + 1, data |-> [call.data EXCEPT !.addedAt = created + 1]]>>
        \o collection

\* addDocResolved leaving the title field as it is.
addDocResolved_keepTitle ==
    /\ ~unmounted
    /\ \E i \in DOMAIN pendingAdds :
         /\ pendingAdds' = Without(pendingAdds, i)
         /\ docs' = withCreated(docs, pendingAdds[i])
    /\ created' = created + 1
    /\ newLinkUrl' = <<>>
    /\ showAddForm' = FALSE
    /\ UNCHANGED <<newLinkTitle, links, isLoading, error, lastSnapshot, pendingDeletes>>
    /\ unchangedSession /\ unchangedAuthCalls /\ unchangedSummaries

\* addDoc resolves, the store having created the document: the handler resets the
\* form.
addDocResolved ==
    /\ ~unmounted
    /\ \E i \in DOMAIN pendingAdds :
         /\ pendingAdds' = Without(pendingAdds, i)
         /\ docs' = withCreated(docs, pendingAdds[i])
    /\ created' = created + 1
    /\ newLinkUrl' = <<>>
    /\ newLinkTitle' = <<>>
    /\ showAddForm' = FALSE
    /\ UNCHANGED <<links, isLoading, error, lastSnapshot, pendingDeletes>>
    /\ unchangedSession /\ unchangedAuthCalls /\ unchangedSummaries

\* addDocRejected resetting the form as the success path does.
addDocRejected_resetForm ==
    /\ ~unmounted
    /\ \E i \in DOMAIN pendingAdds : pendingAdds' = Without(pendingAdds, i)
    /\ error' = ErrAddFailed
    /\ newLinkUrl' = <<>>
    /\ newLinkTitle' = <<>>
    /\ showAddForm' = FALSE
    /\ UNCHANGED <<links, isLoading, lastSnapshot, docs, created, pendingDeletes>>
    /\ unchangedSession /\ unchangedAuthCalls /\ unchangedSummaries

\* addDoc rejects: the catch of handleAddLink.
addDocRejected ==
    /\ ~unmounted
    /\ \E i \in DOMAIN pendingAdds : pendingAdds' = Without(pendingAdds, i)
    /\ error' = ErrAddFailed
    /\ UNCHANGED <<links, isLoading, lastSnapshot, docs, created, pendingDeletes>>
    /\ unchangedSession /\ unchangedForm /\ unchangedAuthCalls /\ unchangedSummaries

\* --------------------------------------------------------- handleDeleteLink

\* onClick of "Delete" on the card of a link (disabled while isLoading or while the
\* link is being summarized), up to the await of deleteDoc.
handleDeleteLink(linkId) ==
    /\ AppShown
    /\ linkId \in LinkIds
    /\ ~(isLoading \/ Summarizing(linkId))
    /\ IF db = NULL \/ userId = NULL
       THEN /\ error' = ErrNotReady
            /\ pendingDeletes' = pendingDeletes
       ELSE /\ pendingDeletes[linkId] < MaxInFlight
            /\ error' = NoError
            /\ pendingDeletes' = [pendingDeletes EXCEPT ![linkId] = @ + 1]
    /\ UNCHANGED <<links, isLoading, lastSnapshot, docs, created, pendingAdds>>
    /\ unchangedSession /\ unchangedForm /\ unchangedAuthCalls /\ unchangedSummaries

\* deleteDocResolved also taking the link out of the rendered list.
deleteDocResolved_optimistic(linkId) ==
    /\ ~unmounted
    /\ pendingDeletes[linkId] > 0
    /\ pendingDeletes' = [pendingDeletes EXCEPT ![linkId] = @ - 1]
    /\ docs' = SelectDocs(docs, linkId)
    /\ links' = SelectDocs(links, linkId)
    /\ summaries' = Remove(summaries, linkId)
    /\ UNCHANGED <<isLoading, error, lastSnapshot, created, pendingAdds,
                   isSummarizing, sumReq>>
    /\ unchangedSession /\ unchangedForm /\ unchangedAuthCalls

\* deleteDoc resolves, the document being gone from the store (deleting a document
\* that is already gone succeeds too): the handler removes the link's summary.
deleteDocResolved(linkId) ==
    /\ ~unmounted
    /\ pendingDeletes[linkId] > 0
    /\ pendingDeletes' = [pendingDeletes EXCEPT ![linkId] = @ - 1]
    /\ docs' = SelectDocs(docs, linkId)
    /\ summaries' = Remove(summaries, linkId)
    /\ UNCHANGED <<links, isLoading, error, lastSnapshot, created, pendingAdds,
                   isSummarizing, sumReq>>
    /\ unchangedSession /\ unchangedForm /\ unchangedAuthCalls

\* deleteDoc rejects: the catch of handleDeleteLink.
deleteDocRejected(linkId) ==
    /\ ~unmounted
    /\ pendingDeletes[linkId] > 0
    /\ pendingDeletes' = [pendingDeletes EXCEPT ![linkId] = @ - 1]
    /\ error' = ErrDeleteFailed
    /\ UNCHANGED <<links, isLoading, lastSnapshot, docs, created, pendingAdds>>
    /\ unchangedSession /\ unchangedForm /\ unchangedAuthCalls /\ unchangedSummaries

\* --------------------------------------------------------- handleGetSummary

\* The end of every path of handleGetSummary: the displayed text the path leaves,
\* then the finally block.
settleSummary(linkId, text) ==
    /\ summaries' = Put(summaries, linkId, text)
    /\ isSummarizing' = Put(isSummarizing, linkId, FALSE)
    /\ sumReq' = Remove(sumReq, linkId)

\* handleGetSummary with a summary button that is never disabled.
handleGetSummary_neverDisabled(linkId) ==
    /\ AppShown
    /\ linkId \in LinkIds
    /\ IF db = NULL \/ userId = NULL
       THEN /\ error' = ErrNotReadySummary
            /\ UNCHANGED <<summaries, isSummarizing, sumReq>>
       ELSE /\ error' = error
            /\ isSummarizing' = Put(isSummarizing, linkId, TRUE)
            /\ summaries' = Put(summaries, linkId, GeneratingText)
            /\ sumReq' = Put(sumReq, linkId,
                             [pc |-> "fetch", text |-> NULL,
                              title |-> LinkWithId(linkId).title,
                              url |-> LinkWithId(linkId).url])
    /\ UNCHANGED <<links, isLoading, lastSnapshot>>
    /\ unchangedSession /\ unchangedForm /\ unchangedAuthCalls /\ unchangedStore

\* onClick of the summary button on the card of a link (disabled while the link is
\* being summarized), up to the await of fetch.
handleGetSummary(linkId) ==
    /\ AppShown
    /\ linkId \in LinkIds
    /\ ~Summarizing(linkId)
    /\ IF db = NULL \/ userId = NULL
       THEN /\ error' = ErrNotReadySummary
            /\ UNCHANGED <<summaries, isSummarizing, sumReq>>
       ELSE /\ error' = error
            /\ isSummarizing' = Put(isSummarizing, linkId, TRUE)
            /\ summaries' = Put(summaries, linkId, GeneratingText)
            /\ sumReq' = Put(sumReq, linkId,
                             [pc |-> "fetch", text |-> NULL,
                              title |-> LinkWithId(linkId).title,
                              url |-> LinkWithId(linkId).url])
    /\ UNCHANGED <<links, isLoading, lastSnapshot>>
    /\ unchangedSession /\ unchangedForm /\ unchangedAuthCalls /\ unchangedStore

\* fetch rejects, or response.json() throws on a body that is no JSON: the catch.
fetchThrows(linkId) ==
    /\ ~unmounted
    /\ linkId \in DOMAIN sumReq
    /\ sumReq[linkId].pc = "fetch"
    /\ \E message \in ErrMessages : settleSummary(linkId, errorText(message))
    /\ UNCHANGED <<links, isLoading, error, lastSnapshot>>
    /\ unchangedSession /\ unchangedForm /\ unchangedAuthCalls /\ unchangedStore

\* responseNotOk showing the thrown message without the "Error: " before it.
responseNotOk_noPrefix(linkId) ==
    /\ ~unmounted
    /\ linkId \in DOMAIN sumReq
    /\ sumReq[linkId].pc = "fetch"
    /\ \E status \in Statuses, apiMessage \in ApiMessages :
         settleSummary(linkId, apiErrorMessage(status, apiMessage))
    /\ UNCHANGED <<links, isLoading, error, lastSnapshot>>
    /\ unchangedSession /\ unchangedForm /\ unchangedAuthCalls /\ unchangedStore

\* The response is not ok: the handler throws the API error, and the catch shows it.
responseNotOk(linkId) ==
    /\ ~unmounted
    /\ linkId \in DOMAIN sumReq
    /\ sumReq[linkId].pc = "fetch"
    /\ \E status \in Statuses, apiMessage \in ApiMessages :
         settleSummary(linkId, errorText(apiErrorMessage(status, apiMessage)))
    /\ UNCHANGED <<links, isLoading, error, lastSnapshot>>
    /\ unchangedSession /\ unchangedForm /\ unchangedAuthCalls /\ unchangedStore

\* responseMalformed without the finally block.
responseMalformed_noFinally(linkId) ==
    /\ ~unmounted
    /\ linkId \in DOMAIN sumReq
    /\ sumReq[linkId].pc = "fetch"
    /\ summaries' = Put(summaries, linkId, CouldNotGenerateText)
    /\ sumReq' = Remove(sumReq, linkId)
    /\ UNCHANGED <<links, isLoading, error, lastSnapshot, isSummarizing>>
    /\ unchangedSession /\ unchangedForm /\ unchangedAuthCalls /\ unchangedStore

\* responseMalformed writing the fixed message to the document as well.
responseMalformed_persists(linkId) ==
    /\ ~unmounted
    /\ linkId \in DOMAIN sumReq
    /\ sumReq[linkId].pc = "fetch"
    /\ settleSummary(linkId, CouldNotGenerateText)
    /\ docs' = [i \in DOMAIN docs |->
                  IF docs[i].id = linkId
                  THEN [docs[i] EXCEPT !.data.summary = CouldNotGenerateText]
                  ELSE docs[i]]
    /\ UNCHANGED <<links, isLoading, error, lastSnapshot, created, pendingAdds,
                   pendingDeletes>>
    /\ unchangedSession /\ unchangedForm /\ unchangedAuthCalls

\* The response is ok but lacks candidates[0].content.parts[0]: the else branch.
responseMalformed(linkId) ==
    /\ ~unmounted
    /\ linkId \in DOMAIN sumReq
    /\ sumReq[linkId].pc = "fetch"
    /\ settleSummary(linkId, CouldNotGenerateText)
    /\ UNCHANGED <<links, isLoading, error, lastSnapshot>>
    /\ unchangedSession /\ unchangedForm /\ unchangedAuthCalls /\ unchangedStore

\* responseWellFormed showing the text without persisting it.
responseWellFormed_noUpdateDoc(linkId) ==
    /\ ~unmounted
    /\ linkId \in DOMAIN sumReq
    /\ sumReq[linkId].pc = "fetch"
    /\ \E textSummary \in Texts : settleSummary(linkId, textSummary)
    /\ UNCHANGED <<links, isLoading, error, lastSnapshot>>
    /\ unchangedSession /\ unchangedForm /\ unchangedAuthCalls /\ unchangedStore

\* The response is ok and well-formed: the text is shown, and updateDoc is called
\* with it and awaited.
responseWellFormed(linkId) ==
    /\ ~unmounted
    /\ linkId \in DOMAIN sumReq
    /\ sumReq[linkId].pc = "fetch"
    /\ \E textSummary \in Texts :
         /\ summaries' = Put(summaries, linkId, textSummary)
         /\ sumReq' = [sumReq EXCEPT ![linkId].pc = "updateDoc",
                                     ![linkId].text = textSummary]
    /\ UNCHANGED <<links, isLoading, error, lastSnapshot, isSummarizing>>
    /\ unchangedSession /\ unchangedForm /\ unchangedAuthCalls /\ unchangedStore

\* The collection with the summary field of document linkId set to text.
withSummary(collection, linkId, text) ==
    [i \in DOMAIN collection |->
        IF collection[i].id = linkId
        THEN [collection[i] EXCEPT !.data.summary = text]
        ELSE collection[i]]

\* updateDoc resolves, the document now holding the summary (it must exist for
\* that): the finally block.
updateDocResolved(linkId) ==
    /\ ~unmounted
    /\ linkId \in DOMAIN sumReq
    /\ sumReq[linkId].pc = "updateDoc"
    /\ linkId \in DocIds
    /\ docs' = withSummary(docs, linkId, sumReq[linkId].text)
    /\ isSummarizing' = Put(isSummarizing, linkId, FALSE)
    /\ sumReq' = Remove(sumReq, linkId)
    /\ UNCHANGED <<links, isLoading, error, lastSnapshot, summaries, created,
                   pendingAdds, pendingDeletes>>
    /\ unchangedSession /\ unchangedForm /\ unchangedAuthCalls

\* updateDoc rejects (the document is gone, or the write fails): the catch, then
\* the finally.
updateDocRejected(linkId) ==
    /\ ~unmounted
    /\ linkId \in DOMAIN sumReq
    /\ sumReq[linkId].pc = "updateDoc"
    /\ \E message \in ErrMessages : settleSummary(linkId, errorText(message))
    /\ UNCHANGED <<links, isLoading, error, lastSnapshot>>
    /\ unchangedSession /\ unchangedForm /\ unchangedAuthCalls /\ unchangedStore

\* ------------------------------------------------------------------ unmount

\* The unmount of App without the cleanup of the subscription effect.
Unmount_noCleanup ==
    /\ mounted
    /\ ~unmounted
    /\ unmounted' = TRUE
    /\ UNCHANGED <<config, mounted, db, auth, userId, isAuthReady, sub, links, isLoading,
                   error, lastSnapshot>>
    /\ unchangedForm /\ unchangedStore /\ unchangedAuthCalls /\ unchangedSummaries

\* React unmounts App and runs the cleanups of its effects: the subscription effect
\* returned () => unsubscribe() if it had subscribed; the initialization effect
\* returns none (the auth listener stays registered).  React drops the state
\* updates of an unmounted component, so its state is followed no further.
Unmount ==
    /\ mounted
    /\ ~unmounted
    /\ unmounted' = TRUE
    /\ sub' = IF sub.state \in {"live", "errored"}
              THEN [sub EXCEPT !.state = "closed", !.closed = @ + 1] ELSE sub
    /\ UNCHANGED <<config, mounted, db, auth, userId, isAuthReady, links, isLoading,
                   error, lastSnapshot>>
    /\ unchangedForm /\ unchangedStore /\ unchangedAuthCalls /\ unchangedSummaries

\* ------------------------------------------------------------ specification

Next ==
    \/ InitializeEffect
    \/ PersistenceResolved
    \/ PersistenceRejected
    \/ AuthStateChanged
    \/ SignInResolved
    \/ SignInRejected
    \/ SnapshotDelivered
    \/ SnapshotFailed
    \/ Unmount
    \/ OpenAddForm
    \/ CancelAddForm
    \/ TypeUrl
    \/ TypeTitle
    \/ handleAddLink
    \/ addDocResolved
    \/ addDocRejected
    \/ \E linkId \in Ids :
         \/ handleDeleteLink(linkId)
         \/ deleteDocResolved(linkId)
         \/ deleteDocRejected(linkId)
         \/ handleGetSummary(linkId)
         \/ fetchThrows(linkId)
         \/ responseNotOk(linkId)
         \/ responseMalformed(linkId)
         \/ responseWellFormed(linkId)
         \/ updateDocResolved(linkId)
         \/ updateDocRejected(linkId)

Spec == Init /\ [][Next]_vars

\* The extractor on its own: the signed-in application with the links delivered
\* and the form open and filled in, the url field holding any of the extractor's
\* inputs; the submit applies getYouTubeVideoId to it.
ExtractorInit ==
    /\ config = "valid"
    /\ mounted = TRUE
    /\ unmounted = FALSE
    /\ db = FirestoreDb
    /\ auth = FirebaseAuth
    /\ userId = Uid
    /\ isAuthReady = TRUE
    /\ links = <<>>
    /\ newLinkUrl \in ExtractorInputs
    /\ newLinkTitle = TitleText
    /\ isLoading = FALSE
    /\ error = NoError
    /\ showAddForm = TRUE
    /\ summaries = <<>>
    /\ isSummarizing = <<>>
    /\ persistence = "settled"
    /\ authListener = TRUE
    /\ authEvents = <<>>
    /\ signIn = "none"
    /\ sub = [path |-> linksCollectionPath(Uid), state |-> "live",
              opened |-> 1, closed |-> 0]
    /\ docs = <<>>
    /\ created = 0
    /\ pendingAdds = <<>>
    /\ pendingDeletes = [id \in Ids |-> 0]
    /\ sumReq = <<>>
    /\ lastSnapshot = <<>>

ExtractorSpec == ExtractorInit /\ [][handleAddLink]_vars

\* =================================================================== claims

\* What the claims speak of.
NotReady == db = NULL \/ userId = NULL
Blank(s) == trim(s) = <<>>
NoAddDocIssued == pendingAdds' = pendingAdds
NoDeleteDocIssued == pendingDeletes' = pendingDeletes
\* Neither the generation fetch nor updateDoc.
NoSummaryCallIssued == sumReq' = sumReq
NoOnSnapshotIssued == sub' = sub
NoCallIssued ==
    NoAddDocIssued /\ NoDeleteDocIssued /\ NoSummaryCallIssued /\ NoOnSnapshotIssued
\* The summary field of document id in the store (NULL also when it is gone).
PersistedSummary(collection, id) ==
    IF \E i \in DOMAIN collection : collection[i].id = id
    THEN collection[CHOOSE i \in DOMAIN collection : collection[i].id = id].data.summary
    ELSE NULL

\* ---- C1
\* C1 as stated: add, delete and summarize, invoked while db or userId is null,
\* set a "not ready" error and issue no network call, and no subscription is
\* opened while db or userId is null.
C1_AsStated ==
    [][/\ (NotReady /\ handleAddLink)
            => (error' = ErrNotReady /\ NoCallIssued)
       /\ \A id \in Ids :
            (NotReady /\ (handleDeleteLink(id) \/ handleGetSummary(id)))
              => (error' \in {ErrNotReady, ErrNotReadySummary} /\ NoCallIssued)
       /\ (db' = NULL \/ userId' = NULL) => sub'.state # "live"]_vars

\* C1, amended: while db or userId is null no operation issues a network call and
\* no subscription is opened.  handleAddLink then sets the not-ready error, unless
\* the url or the title is blank, which it reports first, with the validation
\* error; handleDeleteLink and handleGetSummary set their not-ready errors.
C1_NotReadyRefused ==
    [][/\ (NotReady /\ handleAddLink)
            => /\ NoCallIssued
               /\ error' = IF Blank(newLinkUrl) \/ Blank(newLinkTitle)
                           THEN ErrRequired ELSE ErrNotReady
       /\ \A id \in Ids :
            /\ (NotReady /\ handleDeleteLink(id))
                 => (NoCallIssued /\ error' = ErrNotReady)
            /\ (NotReady /\ handleGetSummary(id))
                 => (NoCallIssued /\ error' = ErrNotReadySummary)
       /\ (db' = NULL \/ userId' = NULL)
            => /\ sub'.state # "live"
               /\ NoAddDocIssued /\ NoDeleteDocIssued /\ NoSummaryCallIssued]_vars

\* handleAddLink has refused a filled-in form because there is no user.
C1_Witness ==
    /\ error = ErrNotReady
    /\ db # NULL /\ userId = NULL
    /\ ~Blank(newLinkUrl) /\ ~Blank(newLinkTitle)
    /\ pendingAdds = <<>>

\* ---- C2
\* C2 as stated: handleAddLink rejects exactly when the title is empty, the url is
\* empty or no video id is extracted, and accepts in every other case.
C2_AsStated ==
    [][handleAddLink =>
         IF newLinkTitle = <<>> \/ newLinkUrl = <<>> \/ getYouTubeVideoId(newLinkUrl) = NULL
         THEN NoAddDocIssued /\ error' \in {ErrRequired, ErrInvalidUrl}
         ELSE Len(pendingAdds') = Len(pendingAdds) + 1]_vars

\* C2, amended: handleAddLink issues no create call and sets an error when the url
\* or the title is blank after trimming (validation error), else when db or userId
\* is null (not-ready error), else when getYouTubeVideoId returns null (validation
\* error); in every other case it issues exactly one create call carrying the url
\* and the title as typed, the extracted videoId, userId and summary = null.
C2_AddValidation ==
    [][handleAddLink =>
         IF Blank(newLinkUrl) \/ Blank(newLinkTitle)
         THEN NoAddDocIssued /\ error' = ErrRequired
         ELSE IF NotReady
         THEN NoAddDocIssued /\ error' = ErrNotReady
         ELSE IF getYouTubeVideoId(newLinkUrl) = NULL
         THEN NoAddDocIssued /\ error' = ErrInvalidUrl
         ELSE /\ Len(pendingAdds') = Len(pendingAdds) + 1
              /\ SubSeq(pendingAdds', 1, Len(pendingAdds)) = pendingAdds
              /\ LET call == pendingAdds'[Len(pendingAdds')]
                 IN  /\ call.path = linksCollectionPath(userId)
                     /\ call.data.url = newLinkUrl
                     /\ call.data.title = newLinkTitle
                     /\ call.data.videoId = getYouTubeVideoId(newLinkUrl)
                     /\ Len(call.data.videoId) = VideoIdLength
                     /\ call.data.userId = userId
                     /\ call.data.summary = NULL]_vars

\* A create call is in flight.
C2_Witness ==
    /\ Len(pendingAdds) = 1
    /\ pendingAdds[1].data.url = UrlWatch
    /\ pendingAdds[1].data.videoId = <<"d","Q","w","4","w","9","W","g","X","c","Q">>
    /\ error = NoError

C4_AsStated ==
    [][\A id \in Ids :
         updateDocRejected(id) => (summaries' = summaries /\ error' = error)]_vars

\* ---- C5
\* C5: isSummarizing[X] is true exactly while a request for X is outstanding: true
\* from the accepted trigger on, false once the request has settled, whichever
\* path it took.
C5_FlagFollowsRequest ==
    \A id \in Ids :
      /\ id \in DOMAIN sumReq => (id \in DOMAIN isSummarizing /\ isSummarizing[id] = TRUE)
      /\ id \notin DOMAIN sumReq => ~Summarizing(id)
      /\ (id \in DOMAIN isSummarizing /\ id \notin DOMAIN sumReq)
           => isSummarizing[id] = FALSE

\* A request has settled on the malformed-payload path and the flag is down.
C5_Witness ==
    /\ 1 \in DOMAIN isSummarizing /\ isSummarizing[1] = FALSE
    /\ 1 \in DOMAIN summaries /\ summaries[1] = CouldNotGenerateText

\* ---- C6
\* C6 as stated: once a delete of X has succeeded, X is a key of neither summaries
\* nor isSummarizing.
C6_AsStated ==
    [][\A id \in Ids :
         deleteDocResolved(id)
           => (id \notin DOMAIN summaries' /\ id \notin DOMAIN isSummarizing')]_vars

\* ---- C7
\* The session attempt is still under way: the effect has not run, or a promise or
\* a call of the auth callback is outstanding.
AttemptUnderWay ==
    \/ ~mounted
    \/ persistence = "pending"
    \/ authEvents # <<>>
    \/ signIn \in {"custom", "anonymous"}

NoStoreOperationYet ==
    /\ sub.state = "none"
    /\ pendingAdds = <<>>
    /\ \A id \in Ids : pendingDeletes[id] = 0
    /\ sumReq = <<>>
    /\ created = 0

\* C7: isAuthReady goes from false to true and never back; it is true once the
\* session attempt has ended, in success or in failure; and while it is false no
\* store operation has been performed.
C7_AuthReadyOnce ==
    /\ [](~AttemptUnderWay => isAuthReady)
    /\ [](~isAuthReady => NoStoreOperationYet)
    /\ [][isAuthReady => isAuthReady']_vars

\* The attempt has ended in a sign-in failure, with the flag set.
C7_Witness ==
    /\ ~AttemptUnderWay
    /\ isAuthReady
    /\ signIn = "done" /\ userId = NULL /\ error = ErrAuthFailed

\* ---- C8
\* C8: with the configuration undefined or unparsable, the mount sets the
\* configuration error, and from then on isLoading is false, isAuthReady is true,
\* userId and db are null, an error is shown, and no auth or store call is issued.
C8_ConfigMissing ==
    /\ []((mounted /\ config \in {"undefined", "unparsable"})
            => /\ ~isLoading /\ isAuthReady
               /\ userId = NULL /\ db = NULL /\ auth = NULL
               /\ error # NoError
               /\ persistence = "none" /\ ~authListener /\ authEvents = <<>>
               /\ signIn = "none"
               /\ NoStoreOperationYet)
    /\ [][(~mounted /\ mounted' /\ config \in {"undefined", "unparsable"})
            => error' = ErrConfigMissing]_vars

\* The failed session, after the user has tried to add a link.
C8_Witness ==
    /\ config = "unparsable" /\ mounted
    /\ error = ErrNotReady
    /\ ~Blank(newLinkUrl) /\ ~Blank(newLinkTitle)

C10_FormResetAfterAdd ==
    [][addDocResolved
         => (newLinkUrl' = <<>> /\ newLinkTitle' = <<>> /\ showAddForm' = FALSE)]_vars

\* The add has resolved (the store holds the document, not yet delivered) and the
\* form is reset and closed.
C10_Witness ==
    /\ created = 1 /\ docs # <<>> /\ links = <<>>
    /\ newLinkUrl = <<>> /\ newLinkTitle = <<>> /\ ~showAddForm

\* ---- C11
\* An addDoc call has settled without the store creating a document.
AddDocFailed == Len(pendingAdds') = Len(pendingAdds) - 1 /\ created' = created

\* C11: the step in which addDoc rejects sets the add-failure error and leaves
\* newLinkUrl, newLinkTitle and showAddForm as they were; the store holds no new
\* document.
C11_AddFailureKeepsForm ==
    [][AddDocFailed
         => /\ error' = ErrAddFailed
            /\ newLinkUrl' = newLinkUrl
            /\ newLinkTitle' = newLinkTitle
            /\ showAddForm' = showAddForm
            /\ docs' = docs]_vars

\* The add has failed and the form still holds the submission, open for a retry.
C11_Witness ==
    /\ error = ErrAddFailed
    /\ pendingAdds = <<>> /\ created = 0
    /\ showAddForm /\ newLinkUrl = UrlWatch /\ newLinkTitle = TitleText
    /\ ENABLED handleAddLink

\* ---- C12
\* C12: the step in which the generation request for X ends on a response that is
\* not ok leaves summaries[X] starting with "Error:", has issued no updateDoc (the
\* request was at its fetch and is gone, the store is untouched), and leaves the
\* summary button of X enabled and labelled "Get Summary", not "Regenerate
\* Summary".
C12_HttpFailureShown ==
    [][\A id \in Ids :
         responseNotOk(id)
           => /\ id \in DOMAIN summaries'
              /\ startsWith(summaries'[id], ErrorMarker)
              /\ sumReq[id].pc = "fetch" /\ id \notin DOMAIN sumReq'
              /\ docs' = docs
              /\ ~(Summarizing(id))'
              /\ (summaryButtonLabel(id))' = "Get Summary"]_vars

\* The card of link 1 shows the API error, its button offering "Get Summary".
C12_Witness ==
    /\ 1 \in LinkIds
    /\ 1 \in DOMAIN summaries
    /\ summaries[1] = errorText(apiErrorMessage(<<"5","0","0">>, NULL))
    /\ ~Summarizing(1)
    /\ summaryButtonLabel(1) = "Get Summary"
    /\ PersistedSummary(docs, 1) = NULL

\* ---- C13
\* C13: the step in which a malformed success payload for X is processed sets
\* summaries[X] to the fixed could-not-generate message and issues no store write:
\* the request ends without an updateDoc, and the store, the persisted summary of
\* X included, is as before.
C13_MalformedNotPersisted ==
    [][\A id \in Ids :
         responseMalformed(id)
           => /\ id \in DOMAIN summaries' /\ summaries'[id] = CouldNotGenerateText
              /\ sumReq[id].pc = "fetch" /\ id \notin DOMAIN sumReq'
              /\ docs' = docs
              /\ PersistedSummary(docs', id) = PersistedSummary(docs, id)
              /\ pendingAdds' = pendingAdds /\ pendingDeletes' = pendingDeletes]_vars

\* Link 1 had a summary persisted by an earlier request; a later request got a
\* malformed payload, and the document still holds the earlier summary.
C13_Witness ==
    /\ 1 \in DOMAIN summaries /\ summaries[1] = CouldNotGenerateText
    /\ 1 \notin DOMAIN sumReq
    /\ PersistedSummary(docs, 1) = TextA

\* ---- C14
\* The failed states of the session.
ConfigurationMissing == mounted /\ getFirebaseConfig = NULL
\* setPersistence has rejected: the promise is settled and no listener registered.
PersistenceFailed == persistence = "settled" /\ ~authListener
\* The sign-in has thrown: the call has ended, and neither is there a user nor is
\* the auth callback about to be called with one.
SignInFailed == signIn = "done" /\ userId = NULL /\ authEvents = <<>>

\* C14: onSnapshot is called only in a step that ends with isAuthReady true and db
\* and userId non-null, on the collection path of that userId; a subscription that
\* is live is the one of the current userId; and in the failed states
\* (configuration missing, persistence error, sign-in failure) there is none and
\* there has been none.
C14_SubscriptionOnlyWhenReady ==
    /\ [](sub.state = "live"
            => /\ isAuthReady /\ db # NULL /\ userId # NULL
               /\ sub.path = linksCollectionPath(userId))
    /\ []((ConfigurationMissing \/ PersistenceFailed \/ SignInFailed)
            => (sub.state = "none" /\ sub.opened = 0))
    /\ [][sub'.opened # sub.opened
            => /\ isAuthReady' /\ db' # NULL /\ userId' # NULL
               /\ sub'.state = "live"
               /\ sub'.path = linksCollectionPath(userId')]_vars

\* The subscription of the signed-in user is live and has delivered its links.
C14_Witness ==
    /\ sub.state = "live" /\ sub.opened = 1
    /\ sub.path = <<"artifacts", "default-laterlink-app", "users", Uid, "laterTubeLinks">>
    /\ userId = Uid /\ isAuthReady
    /\ links # <<>>

\* ---- C15
\* A generation request for link id starts in this step: afterwards one stands at
\* its fetch that did not stand there before, or the placeholder was written anew.
RequestStarted(id) ==
    /\ id \in DOMAIN sumReq' /\ sumReq'[id].pc = "fetch"
    /\ \/ id \notin DOMAIN sumReq
       \/ sumReq[id].pc # "fetch"
       \/ /\ id \in DOMAIN summaries' /\ summaries'[id] = GeneratingText
          /\ (id \notin DOMAIN summaries \/ summaries[id] # GeneratingText)

\* C15: a generation request for X starts only in a state where none is
\* outstanding for X and isSummarizing[X] is not true; so at most one is
\* outstanding per link.
C15_OneRequestPerLink ==
    [][\A id \in Ids :
         RequestStarted(id) => (id \notin DOMAIN sumReq /\ ~Summarizing(id))]_vars

\* A request for link 1 is outstanding, at its store write; the button shows the
\* spinner and takes no click.
C15_Witness ==
    /\ 1 \in DOMAIN sumReq /\ sumReq[1].pc = "updateDoc"
    /\ Summarizing(1)
    /\ summaryButtonLabel(1) = "Getting Summary..."
    /\ ~ENABLED handleGetSummary(1)

\* ---- C16
\* The four conditions as the claim writes them.
ViewConditions ==
    <<~isAuthReady /\ isLoading,
      ~isAuthReady /\ ~isLoading,
      isAuthReady /\ ~isLoading /\ links = <<>> /\ error = NoError,
      links # <<>>>>

\* C16: at most one of the four view conditions holds, each is the condition
\* under which the render shows the view, and the error banner is rendered exactly
\* when the error string is not empty.
C16_ViewsExclusive ==
    /\ Cardinality({i \in 1..4 : ViewConditions[i]}) <= 1
    /\ ViewConditions[1] <=> InitialAppLoading
    /\ ViewConditions[2] <=> AuthProblemView
    /\ ViewConditions[3] <=> EmptyListView
    /\ ViewConditions[4] <=> PopulatedListView
    /\ ErrorBannerShown <=> error # NoError

\* The populated list with the banner of a failed delete over it.
C16_Witness ==
    /\ PopulatedListView /\ ErrorBannerShown
    /\ error = ErrDeleteFailed
    /\ ~EmptyListView /\ ~AuthProblemView /\ ~InitialAppLoading

\* ---- C17
\* A shape is a sequence of sets of characters; it stands in s at p when every
\* character of s from p on is in the set at its place.
Lit(str) == [i \in DOMAIN str |-> {str[i]}]
StandsAt(s, p, shape) ==
    /\ p + Len(shape) - 1 <= Len(s)
    /\ \A i \in DOMAIN shape : s[p + i - 1] \in shape[i]
\* The characters other than line terminators.
NoTerminator == WordChars \cup {".", "/", ":", "?", "=", "&", "#", "-", " "}
\* The characters that end an id segment.
SegmentEnds == {"#", "&", "?"}
\* The id segment of s that begins at from: the characters up to the next # & ?.
SegmentFrom(s, from) ==
    LET ends == {i \in from..Len(s) : s[i] \in SegmentEnds}
    IN  SubSeq(s, from, IF ends = {} THEN Len(s) ELSE Min(ends) - 1)

\* The shapes as the claim lists them.
StatedShapes ==
    {Lit(<<"y","o","u","t","u",".","b","e","/">>),
     Lit(<<"/","v","/">>),
     <<{"/"}, {"u"}, {"/"}, WordChars, {"/"}>>,
     Lit(<<"/","e","m","b","e","d","/">>),
     Lit(<<"?","v","=">>),
     Lit(<<"&","v","=">>)}

\* The 11-character id segments that follow a stated shape in s.
StatedIds(s) ==
    {id \in {SegmentFrom(s, pos[1] + Len(pos[2])) :
                pos \in {q \in (1..Len(s)) \X StatedShapes : StandsAt(s, q[1], q[2])}} :
        Len(id) = VideoIdLength}

\* C17 as stated: the extractor returns the 11-character id segment that follows
\* a shape of the list when the string has one, and null for every other string,
\* null and the empty string included.
C17_AsStated ==
    /\ getYouTubeVideoId(NULL) = NULL /\ getYouTubeVideoId(<<>>) = NULL
    /\ IF StatedIds(newLinkUrl) = {}
       THEN getYouTubeVideoId(newLinkUrl) = NULL
       ELSE getYouTubeVideoId(newLinkUrl) \in StatedIds(newLinkUrl)

\* The alternatives of the regular expression: "youtu", any character, "be/";
\* "v/"; "u/", a word character, "/"; "embed/"; "watch?v="; "&v=".
Alternatives ==
    {<<{"y"}, {"o"}, {"u"}, {"t"}, {"u"}, NoTerminator, {"b"}, {"e"}, {"/"}>>,
     Lit(<<"v","/">>),
     <<{"u"}, {"/"}, WordChars, {"/"}>>,
     Lit(<<"e","m","b","e","d","/">>),
     Lit(<<"w","a","t","c","h","?","v","=">>),
     Lit(<<"&","v","=">>)}

\* An alternative stands in s at p, on the first line of s.
AlternativeAt(s, p) ==
    /\ \E shape \in Alternatives : StandsAt(s, p, shape)
    /\ \A i \in 1..(p - 1) : s[i] \notin LineTerminators

\* id is what follows the last alternative of s, up to the next # & ? or the end.
FollowsLastAlternative(s, id) ==
    \E p \in 1..Len(s), shape \in Alternatives :
      /\ StandsAt(s, p, shape) /\ AlternativeAt(s, p)
      /\ \A later \in (p + 1)..Len(s) : ~AlternativeAt(s, later)
      /\ p + Len(shape) + Len(id) - 1 <= Len(s)
      /\ id = SubSeq(s, p + Len(shape), p + Len(shape) + Len(id) - 1)
      /\ \A i \in DOMAIN id : id[i] \notin SegmentEnds
      /\ \/ p + Len(shape) + Len(id) > Len(s)
         \/ s[p + Len(shape) + Len(id)] \in SegmentEnds

\* C17, amended: the extractor returns an id exactly when the segment that
\* follows the last alternative on the first line of the string, up to the next
\* # & ? or the end, is 11 characters long, and then it returns that segment; it
\* returns null for every other string, null and the empty string included; and
\* the id an accepted submit sends to the store is the one extracted from its url.
C17_ExtractsAfterLastAlternative ==
    /\ getYouTubeVideoId(NULL) = NULL /\ getYouTubeVideoId(<<>>) = NULL
    /\ LET id == getYouTubeVideoId(newLinkUrl)
       IN  /\ id # NULL => (Len(id) = VideoIdLength /\ FollowsLastAlternative(newLinkUrl, id))
           /\ id = NULL =>
                ~\E from \in 1..Len(newLinkUrl) :
                    /\ from + VideoIdLength - 1 <= Len(newLinkUrl)
                    /\ FollowsLastAlternative(newLinkUrl,
                           SubSeq(newLinkUrl, from, from + VideoIdLength - 1))
    /\ \A i \in DOMAIN pendingAdds :
         /\ Len(pendingAdds[i].data.videoId) = VideoIdLength
         /\ FollowsLastAlternative(pendingAdds[i].data.url, pendingAdds[i].data.videoId)
    /\ (error = ErrInvalidUrl) => getYouTubeVideoId(newLinkUrl) = NULL

\* A short link with a time parameter has been submitted, and the create call
\* carries its id.
C17_Witness ==
    /\ Len(pendingAdds) = 1
    /\ pendingAdds[1].data.url =
         <<"h","t","t","p","s",":","/","/">> \o HeadShort \o Id11 \o <<"?","t","=","1">>
    /\ pendingAdds[1].data.videoId = Id11

\* ---- C18
SessionFailed == ConfigurationMissing \/ PersistenceFailed \/ SignInFailed

\* C18: the step in which the configuration is found missing, setPersistence
\* rejects or the sign-in throws reports the error of that failure, and such an
\* error is reported in no other step; once the session has failed it stays
\* failed: no sign-in call is made, no call of the auth callback is pending or
\* arrives, and userId stays null.
C18_SessionFailureTerminal ==
    /\ [][/\ (~ConfigurationMissing /\ ConfigurationMissing') => error' = ErrConfigMissing
          /\ (~PersistenceFailed /\ PersistenceFailed') => error' = ErrSession
          /\ (~SignInFailed /\ SignInFailed') => error' = ErrAuthFailed]_vars
    /\ [][/\ (error' # error /\ error' = ErrConfigMissing) => ConfigurationMissing'
          /\ (error' # error /\ error' = ErrSession) => PersistenceFailed'
          /\ (error' # error /\ error' = ErrAuthFailed) => SignInFailed']_vars
    /\ [][SessionFailed
            => /\ SessionFailed'
               /\ signIn' = signIn /\ signIn \notin {"custom", "anonymous"}
               /\ authEvents' = <<>>
               /\ persistence' = persistence
               /\ userId' = NULL]_vars

\* The sign-in has failed, and the user, with the form open, has since replaced
\* the authentication error by a validation error; there is still no user.
C18_Witness ==
    /\ SignInFailed
    /\ isAuthReady /\ userId = NULL /\ db # NULL
    /\ showAddForm /\ error = ErrRequired

\* ---- C19
\* The subscription is open: onSnapshot was called and its unsubscribe was not.
SubscriptionOpen == sub.state \in {"live", "errored"}
\* The context of the subscription ends in this step: a dependency of the effect
\* changes or the component is unmounted.
ContextEnds ==
    \/ <<db, userId, isAuthReady>>' # <<db, userId, isAuthReady>>
    \/ unmounted' # unmounted

\* C19: at most one subscription is open at any time; unsubscribe is called once
\* for the open subscription in the step in which its context ends, and in no
\* other step; and once the subscription is torn down, no callback of it changes
\* the state.
C19_SubscriptionTornDownOnce ==
    /\ [](/\ sub.opened - sub.closed \in {0, 1}
          /\ SubscriptionOpen <=> sub.opened - sub.closed = 1
          /\ sub.state = "closed" => (sub.opened = sub.closed /\ sub.opened > 0)
          /\ sub.state = "none" => sub.opened = 0)
    /\ [][/\ (SubscriptionOpen /\ ContextEnds) => sub'.closed = sub.closed + 1
          /\ sub'.closed # sub.closed
               => (SubscriptionOpen /\ ContextEnds /\ sub'.closed = sub.closed + 1)
          /\ sub.state = "closed"
               => UNCHANGED <<links, summaries, isLoading, error, lastSnapshot>>]_vars

\* The component was unmounted with its list shown: the one subscription it had
\* opened was closed, once.
C19_Witness ==
    /\ unmounted
    /\ sub.state = "closed" /\ sub.opened = 1 /\ sub.closed = 1
    /\ links # <<>>

\* ---- C20
\* The subscription reports a transport error in this step: the listener fails, or
\* the load-failure message appears.
TransportErrorReported ==
    \/ sub.state = "live" /\ sub'.state = "errored"
    \/ error' # error /\ error' = ErrLoadLinks

\* C20: the step in which the subscription reports a transport error sets the
\* load-failure error and isLoading to false, leaves links as it was and calls
\* neither onSnapshot nor unsubscribe; and after the failure the program does not
\* subscribe again: the failed subscription stays as it is until it is torn down.
C20_LoadFailureNoRetry ==
    /\ [][TransportErrorReported
            => /\ error' = ErrLoadLinks
               /\ isLoading' = FALSE
               /\ links' = links
               /\ sub.state = "live" /\ sub'.state = "errored"
               /\ sub'.opened = sub.opened /\ sub'.closed = sub.closed]_vars
    /\ [][sub.state = "errored"
            => /\ sub'.state \in {"errored", "closed"}
               /\ sub'.opened = sub.opened
               /\ links' = links]_vars

\* The subscription has failed after it had delivered the list: the list is still
\* shown, under the load-failure banner.
C20_Witness ==
    /\ sub.state = "errored" /\ sub.opened = 1
    /\ error = ErrLoadLinks /\ ~isLoading
    /\ links # <<>>

\* ---- C21
\* The entry of link id in a summaries map m: its text, or null when it has none.
ShownSummary(m, id) == IF id \in DOMAIN m THEN m[id] ELSE NULL
\* The ids of a snapshot.
SnapshotIds(snapshot) == {snapshot[i].id : i \in DOMAIN snapshot}

\* C21 as stated: after a snapshot is processed, summaries[X] is the persisted
\* summary of every link X of the snapshot whose persisted summary is not null,
\* and the other entries of summaries are as before.
C21_AsStated ==
    [][SnapshotDelivered
         => \A id \in Ids :
              IF id \in SnapshotIds(lastSnapshot') /\ PersistedSummary(lastSnapshot', id) # NULL
              THEN ShownSummary(summaries', id) = PersistedSummary(lastSnapshot', id)
              ELSE ShownSummary(summaries', id) = ShownSummary(summaries, id)]_vars

\* C21, amended: after a snapshot is processed, summaries[X] is the persisted
\* summary of every link X of the snapshot whose persisted summary is neither null
\* nor the empty string, whatever summaries[X] held (the placeholder of an
\* outstanding request, an error text); every other entry of summaries, that of a
\* link whose persisted summary is the empty string included, is as before.
C21_SnapshotOverwritesSummary ==
    [][SnapshotDelivered
         => \A id \in Ids :
              IF id \in SnapshotIds(lastSnapshot') /\ Truthy(PersistedSummary(lastSnapshot', id))
              THEN /\ id \in DOMAIN summaries'
                   /\ summaries'[id] = PersistedSummary(lastSnapshot', id)
              ELSE /\ (id \in DOMAIN summaries') = (id \in DOMAIN summaries)
                   /\ ShownSummary(summaries', id) = ShownSummary(summaries, id)]_vars

\* A request for link 1 is outstanding, at its fetch, and its card shows not the
\* placeholder but the summary an earlier request had persisted: a snapshot was
\* processed after the click.
C21_Witness ==
    /\ 1 \in DOMAIN sumReq /\ sumReq[1].pc = "fetch" /\ Summarizing(1)
    /\ 1 \in DOMAIN summaries /\ summaries[1] = TextA
    /\ lastSnapshot # <<>> /\ PersistedSummary(lastSnapshot, 1) = TextA

\* ---- C22
\* C22: the step in which a snapshot is processed ends with the error string
\* empty, so that no banner is shown, and with isLoading false, whatever the error
\* was before and whoever had raised it; nothing of the form or of the requests
\* under way is touched.
C22_SnapshotClearsError ==
    [][SnapshotDelivered
         => /\ error' = NoError
            /\ ~ErrorBannerShown'
            /\ isLoading' = FALSE
            /\ UNCHANGED <<newLinkUrl, newLinkTitle, showAddForm, pendingAdds,
                           pendingDeletes, sumReq>>]_vars

\* A snapshot has been processed, no error is shown, and the form is open with a
\* url that the add handler refuses and that the user has not touched since.
C22_Witness ==
    /\ sub.state = "live" /\ lastSnapshot = docs /\ links # <<>>
    /\ ~isLoading /\ error = NoError /\ ~ErrorBannerShown
    /\ showAddForm /\ newLinkUrl = UrlNoVideo /\ newLinkTitle = TitleText

====
